---- MODULE Spec2Model ----
(***************************************************************************)
(* Model of the nested annotation-span parser of the notebook              *)
(* jupyter_notebooks/Script_compare_annotations.ipynb (test version,       *)
(* markers "<>" and "</>"): a_iterate, a_check, strip_tags, strip_outer,   *)
(* and of the comparison of two result lists: list_to_dict and the cell    *)
(* that writes ent_compare.txt.  The second version of the parser          *)
(* (markers "<ent>" and "</ent>") is modelled as operators ent_*.          *)
(*                                                                         *)
(* A Python string is a sequence of one-character strings.  Index          *)
(* variables (i, iBgn, iEnd) keep the 0-based values of the code; the      *)
(* character astr[i] of the code is astr[i+1] here.                        *)
(***************************************************************************)
EXTENDS Integers, Sequences, FiniteSets, TLC

VARIABLES input, arg, alist, stack, scan, pc,
          sgl_lst, shs_lst, sgl_dct, shs_dct, oup, cell, ri

\* the state of the parser and the state of the comparison cells
parser == <<input, arg, alist, stack, scan, pc>>

report == <<sgl_lst, shs_lst, sgl_dct, shs_dct, oup, cell, ri>>

vars == <<input, arg, alist, stack, scan, pc,
          sgl_lst, shs_lst, sgl_dct, shs_dct, oup, cell, ri>>

-----------------------------------------------------------------------------
(* Bounds of the explored inputs *)

MaxToks == 6

MaxChars == 4

MaxMarkup == 8

MaxList == 3

-----------------------------------------------------------------------------
(* Python string primitives used by the code *)

Min(a, b) == IF a < b THEN a ELSE b

Max(a, b) == IF a > b THEN a ELSE b

\* Clamp a slice bound as Python does: negative counts from the end.
SliceBound(n, x) == IF x < 0 THEN Max(x + n, 0) ELSE Min(x, n)

\* s[a:b] with the upper bound taken one short
PySlice_Short(s, a, b) ==
  LET lo == SliceBound(Len(s), a)
      hi == SliceBound(Len(s), b - 1)
  IN IF lo >= hi THEN <<>> ELSE SubSeq(s, lo + 1, hi)

\* s[a:b]
PySlice(s, a, b) ==
  LET lo == SliceBound(Len(s), a)
      hi == SliceBound(Len(s), b)
  IN IF lo >= hi THEN <<>> ELSE SubSeq(s, lo + 1, hi)

\* s.find(c) for a one-character c: lowest 0-based index, -1 when absent
Find(s, c) ==
  IF \E p \in 1..Len(s) : s[p] = c
  THEN (CHOOSE p \in 1..Len(s) : s[p] = c /\ \A q \in 1..(p - 1) : s[q] # c) - 1
  ELSE -1

\* s.rfind(c) for a one-character c: highest 0-based index, -1 when absent
RFind(s, c) ==
  IF \E p \in 1..Len(s) : s[p] = c
  THEN (CHOOSE p \in 1..Len(s) : s[p] = c /\ \A q \in (p + 1)..Len(s) : s[q] # c) - 1
  ELSE -1

\* s.startswith(sep, p-1), p 1-based
MatchAt(s, sep, p) ==
  /\ p + Len(sep) - 1 <= Len(s)
  /\ \A k \in 1..Len(sep) : s[p + k - 1] = sep[k]

\* s.split(sep, 1): split at the first occurrence only
Split_Once(s, sep) ==
  IF \E p \in 1..Len(s) : MatchAt(s, sep, p)
  THEN LET p == CHOOSE p \in 1..Len(s) :
                  MatchAt(s, sep, p) /\ \A q \in 1..(p - 1) : ~MatchAt(s, sep, q)
       IN <<SubSeq(s, 1, p - 1), SubSeq(s, p + Len(sep), Len(s))>>
  ELSE <<s>>

RECURSIVE Split(_, _)
\* s.split(sep): pieces between the non-overlapping occurrences of sep,
\* found left to right; always at least one piece
Split(s, sep) ==
  IF \E p \in 1..Len(s) : MatchAt(s, sep, p)
  THEN LET p == CHOOSE p \in 1..Len(s) :
                  MatchAt(s, sep, p) /\ \A q \in 1..(p - 1) : ~MatchAt(s, sep, q)
       IN <<SubSeq(s, 1, p - 1)>> \o Split(SubSeq(s, p + Len(sep), Len(s)), sep)
  ELSE <<s>>

RECURSIVE Join(_)
\* "".join(pieces)
Join(pieces) ==
  IF pieces = <<>> THEN <<>> ELSE Head(pieces) \o Join(Tail(pieces))

-----------------------------------------------------------------------------
(* The markers *)

BgnTag == <<"<", ">">>

EndTag == <<"<", "/", ">">>

-----------------------------------------------------------------------------
(* a_check: the top-level span scan *)

\* locals of a_check before the loop
ScanInit ==
  [i |-> 0, cBgn |-> 0, iBgn |-> 0, cEnd |-> 0, iEnd |-> 0,
   entL |-> <<>>, err |-> FALSE]

\* ScanStep that bounds an entity as soon as the end tags reach the begin
\* tags or stay below them ("<=" for "==")
ScanStep_EarlyMatch(astr, st) ==
  LET i == st.i IN
  IF astr[i + 1] = "<"
  THEN IF i + 1 >= Len(astr)
       THEN [st EXCEPT !.err = TRUE]
       ELSE IF astr[i + 2] = "/"
            THEN IF st.cEnd + 1 <= st.cBgn
                 THEN [i |-> i + 1, cBgn |-> 0, iBgn |-> 0, cEnd |-> 0, iEnd |-> 0,
                       entL |-> Append(st.entL,
                                       PySlice(astr, st.iBgn, i + Len(EndTag))),
                       err |-> FALSE]
                 ELSE [st EXCEPT !.cEnd = @ + 1, !.i = i + 1]
            ELSE [st EXCEPT !.iBgn = IF st.cBgn = 0 THEN i ELSE @,
                            !.cBgn = @ + 1,
                            !.i = i + 1]
  ELSE [st EXCEPT !.i = i + 1]

\* ScanStep with the guard "if cBgn == 0" dropped: every begin tag moves iBgn
ScanStep_EveryBgn(astr, st) ==
  LET i == st.i IN
  IF astr[i + 1] = "<"
  THEN IF i + 1 >= Len(astr)
       THEN [st EXCEPT !.err = TRUE]
       ELSE IF astr[i + 2] = "/"
            THEN IF st.cEnd + 1 = st.cBgn
                 THEN [i |-> i + 1, cBgn |-> 0, iBgn |-> 0, cEnd |-> 0, iEnd |-> 0,
                       entL |-> Append(st.entL,
                                       PySlice(astr, st.iBgn, i + Len(EndTag))),
                       err |-> FALSE]
                 ELSE [st EXCEPT !.cEnd = @ + 1, !.i = i + 1]
            ELSE [st EXCEPT !.iBgn = i, !.cBgn = @ + 1, !.i = i + 1]
  ELSE [st EXCEPT !.i = i + 1]

\* one iteration of the for loop of a_check, at index st.i < len(astr);
\* err is set when astr[i+1] is read past the end (IndexError)
ScanStep(astr, st) ==
  LET i == st.i IN
  IF astr[i + 1] = "<"
  THEN IF i + 1 >= Len(astr)
       THEN [st EXCEPT !.err = TRUE]
       ELSE IF astr[i + 2] = "/"
            THEN IF st.cEnd + 1 = st.cBgn
                 THEN [i |-> i + 1, cBgn |-> 0, iBgn |-> 0, cEnd |-> 0, iEnd |-> 0,
                       entL |-> Append(st.entL,
                                       PySlice(astr, st.iBgn, i + Len(EndTag))),
                       err |-> FALSE]
                 ELSE [st EXCEPT !.cEnd = @ + 1, !.i = i + 1]
            ELSE [st EXCEPT !.iBgn = IF st.cBgn = 0 THEN i ELSE @,
                            !.cBgn = @ + 1,
                            !.i = i + 1]
  ELSE [st EXCEPT !.i = i + 1]

RECURSIVE ScanFrom(_, _)
\* the rest of the loop from the locals st
ScanFrom(astr, st) ==
  IF st.err \/ st.i >= Len(astr) THEN st ELSE ScanFrom(astr, ScanStep(astr, st))

\* a_check(astr): .entL is the returned list, .err tells that it raised
a_check(astr) == ScanFrom(astr, ScanInit)

-----------------------------------------------------------------------------
(* strip_tags and strip_outer *)

RECURSIVE SplitEach(_, _)
\* the loop of strip_tags: extend astr3 with the split of every piece
SplitEach(pieces, sep) ==
  IF pieces = <<>> THEN <<>>
  ELSE Split(Head(pieces), sep) \o SplitEach(Tail(pieces), sep)

\* strip_tags that removes the begin tags only
strip_tags_BgnOnly(astr2, lst) == Append(lst, Join(Split(astr2, BgnTag)))

\* strip_tags that skips a text the list already holds
strip_tags_Dedup(astr2, lst) ==
  LET txt == Join(SplitEach(Split(astr2, BgnTag), EndTag))
  IN IF \E k \in 1..Len(lst) : lst[k] = txt THEN lst ELSE Append(lst, txt)

\* strip_tags(astr2, alist): the list with one entry appended
strip_tags(astr2, lst) ==
  Append(lst, Join(SplitEach(Split(astr2, BgnTag), EndTag)))

\* strip_outer that cuts at the first ">" only: astr2[astr2.find(">")+1:]
strip_outer_OpenEnd(astr2) ==
  PySlice(astr2, Find(astr2, ">") + 1, Len(astr2))

\* strip_outer that takes the last ">" for the first
strip_outer_LastGt(astr2) ==
  PySlice(astr2, RFind(astr2, ">") + 1, RFind(astr2, "<"))

\* strip_outer(astr2)
strip_outer(astr2) ==
  PySlice(astr2, Find(astr2, ">") + 1, RFind(astr2, "<"))

-----------------------------------------------------------------------------
(* a_iterate as a function of its arguments *)

RECURSIVE a_iterate(_, _), a_iterate_each(_, _, _)
\* a_iterate(astr, alist): .alist is the list returned, .err tells that
\* the call raised
a_iterate(astr, lst) ==
  LET r == a_check(astr) IN
  IF r.err THEN [err |-> TRUE, alist |-> lst]
  ELSE IF Len(r.entL) = 1
       THEN a_iterate(strip_outer(r.entL[1]), strip_tags(r.entL[1], lst))
       ELSE a_iterate_each(r.entL, 1, lst)

\* the for loop of the else branch, from the k-th span on
a_iterate_each(astr2, k, lst) ==
  IF k > Len(astr2) THEN [err |-> FALSE, alist |-> lst]
  ELSE LET r == a_iterate(astr2[k], lst)
       IN IF r.err THEN r ELSE a_iterate_each(astr2, k + 1, r.alist)

-----------------------------------------------------------------------------
(* Inputs *)

Tokens == {BgnTag, EndTag, <<"X">>, <<"Y">>}

Chars == {"<", ">", "/", "X"}

SeqsUpTo(S, n) == UNION {[1..k -> S] : k \in 0..n}

\* the strings of the notebook's test cells
Tested1 == BgnTag \o BgnTag \o <<"X">> \o EndTag \o <<" ", "Y">> \o EndTag

Tested2 == BgnTag \o BgnTag \o <<"X">> \o EndTag \o <<" ">>
             \o BgnTag \o <<"Y">> \o EndTag \o EndTag

Tested3 == BgnTag \o BgnTag \o <<"X">> \o EndTag \o <<" ">>
             \o BgnTag \o <<"Y">> \o EndTag \o <<" ">>
             \o BgnTag \o <<"Z">> \o EndTag \o EndTag

Tested4 == BgnTag \o BgnTag \o BgnTag \o <<"X">> \o EndTag \o <<" ", "Y">> \o EndTag
             \o <<" ">> \o BgnTag \o <<"Z">> \o EndTag \o EndTag

Inputs ==
  {Join(t) : t \in SeqsUpTo(Tokens, MaxToks)}
    \cup SeqsUpTo(Chars, MaxChars)
    \cup {Tested1, Tested2, Tested3, Tested4}

\* the characters of the markers, in any arrangement
MarkupChars == {"<", ">", "/"}

MarkupInputs == SeqsUpTo(MarkupChars, MaxMarkup)

-----------------------------------------------------------------------------
(* The comparison of two sources: list_to_dict and the report cell *)

\* A Python dict: its items in insertion order, keys unique
DictHas(adict, i) == \E k \in 1..Len(adict) : adict[k].key = i

\* adict[i]
DictGet(adict, i) == (CHOOSE k \in 1..Len(adict) : adict[k].key = i)

\* adict[i] = v
DictPut(adict, i, v) ==
  IF DictHas(adict, i)
  THEN [k \in 1..Len(adict) |->
          IF adict[k].key = i THEN [key |-> i, val |-> v] ELSE adict[k]]
  ELSE Append(adict, [key |-> i, val |-> v])

RECURSIVE list_to_dict_from_LastOcc(_, _, _)
\* list_to_dict_from that moves a text seen again to the end of the dict
list_to_dict_from_LastOcc(lst, k, adict) ==
  IF k > Len(lst) THEN adict
  ELSE list_to_dict_from_LastOcc(lst, k + 1,
          Append(SelectSeq(adict, LAMBDA e : e.key # lst[k]),
                 [key |-> lst[k], val |-> 0]))

RECURSIVE list_to_dict_from(_, _, _)
\* the loop of list_to_dict from the k-th element on
list_to_dict_from(lst, k, adict) ==
  IF k > Len(lst) THEN adict
  ELSE list_to_dict_from(lst, k + 1,
          IF DictHas(adict, lst[k]) THEN adict ELSE DictPut(adict, lst[k], 0))

\* list_to_dict(alist)
list_to_dict(lst) == list_to_dict_from(lst, 1, <<>>)

\* the cells have not run
ReportIdle ==
  /\ sgl_lst = <<>> /\ shs_lst = <<>>
  /\ sgl_dct = <<>> /\ shs_dct = <<>>
  /\ oup = <<>> /\ cell = "parse" /\ ri = 0

\* texts of the entries and the result lists compared
Texts == {<<>>, <<"X">>, <<"Y">>}

ResultLists == SeqsUpTo(Texts, MaxList)

\* the two result lists are there, the parser is at rest
InitReport ==
  /\ input = <<>> /\ arg = <<>> /\ alist = <<>> /\ stack = <<>>
  /\ scan = ScanInit /\ pc = "done"
  /\ sgl_lst \in ResultLists /\ shs_lst \in ResultLists
  /\ sgl_dct = <<>> /\ shs_dct = <<>>
  /\ oup = <<>> /\ cell = "sgl_dct" /\ ri = 0

\* sgl_dct = list_to_dict(sgl_lst)
DictSgl ==
  /\ cell = "sgl_dct"
  /\ sgl_dct' = list_to_dict(sgl_lst)
  /\ cell' = "shs_dct"
  /\ UNCHANGED <<sgl_lst, shs_lst, shs_dct, oup, ri>>
  /\ UNCHANGED parser

\* shs_dct = list_to_dict(shs_lst)
DictShs ==
  /\ cell = "shs_dct"
  /\ shs_dct' = list_to_dict(shs_lst)
  /\ cell' = "open"
  /\ UNCHANGED <<sgl_lst, shs_lst, sgl_dct, oup, ri>>
  /\ UNCHANGED parser

\* open the report and write its header line
OpenReport ==
  /\ cell = "open"
  /\ oup' = << <<"Entity", "SL", "SS">> >>
  /\ cell' = "for_sgl"
  /\ ri' = 0
  /\ UNCHANGED <<sgl_lst, shs_lst, sgl_dct, shs_dct>>
  /\ UNCHANGED parser

\* RowSgl that does not mark the shared text in shs_dct
RowSgl_NoMark ==
  /\ cell = "for_sgl"
  /\ ri < Len(sgl_dct)
  /\ LET i == sgl_dct[ri + 1].key IN
       /\ shs_dct' = shs_dct
       /\ oup' = Append(oup, IF DictHas(shs_dct, i) THEN <<i, "1", "1">>
                                                    ELSE <<i, "1", "0">>)
  /\ ri' = ri + 1
  /\ UNCHANGED <<sgl_lst, shs_lst, sgl_dct, cell>>
  /\ UNCHANGED parser

\* one iteration of "for i in sgl_dct"
RowSgl ==
  /\ cell = "for_sgl"
  /\ ri < Len(sgl_dct)
  /\ LET i == sgl_dct[ri + 1].key IN
       IF DictHas(shs_dct, i)
       THEN /\ shs_dct' = DictPut(shs_dct, i, 1)
            /\ oup' = Append(oup, <<i, "1", "1">>)
       ELSE /\ shs_dct' = shs_dct
            /\ oup' = Append(oup, <<i, "1", "0">>)
  /\ ri' = ri + 1
  /\ UNCHANGED <<sgl_lst, shs_lst, sgl_dct, cell>>
  /\ UNCHANGED parser

\* "for i in sgl_dct" is exhausted
EndSgl ==
  /\ cell = "for_sgl"
  /\ ri = Len(sgl_dct)
  /\ cell' = "for_shs"
  /\ ri' = 0
  /\ UNCHANGED <<sgl_lst, shs_lst, sgl_dct, shs_dct, oup>>
  /\ UNCHANGED parser

\* RowShs without the test "if shs_dct[i] == 0"
RowShs_NoFlagTest ==
  /\ cell = "for_shs"
  /\ ri < Len(shs_dct)
  /\ oup' = Append(oup, <<shs_dct[ri + 1].key, "0", "1">>)
  /\ ri' = ri + 1
  /\ UNCHANGED <<sgl_lst, shs_lst, sgl_dct, shs_dct, cell>>
  /\ UNCHANGED parser

\* one iteration of "for i in shs_dct"
RowShs ==
  /\ cell = "for_shs"
  /\ ri < Len(shs_dct)
  /\ LET i == shs_dct[ri + 1].key IN
       oup' = IF shs_dct[DictGet(shs_dct, i)].val = 0
              THEN Append(oup, <<i, "0", "1">>)
              ELSE oup
  /\ ri' = ri + 1
  /\ UNCHANGED <<sgl_lst, shs_lst, sgl_dct, shs_dct, cell>>
  /\ UNCHANGED parser

\* "for i in shs_dct" is exhausted: oup.close()
CloseReport ==
  /\ cell = "for_shs"
  /\ ri = Len(shs_dct)
  /\ cell' = "closed"
  /\ UNCHANGED <<sgl_lst, shs_lst, sgl_dct, shs_dct, oup, ri>>
  /\ UNCHANGED parser

NextReport == DictSgl \/ DictShs \/ OpenReport \/ RowSgl \/ EndSgl \/ RowShs \/ CloseReport

SpecReport == InitReport /\ [][NextReport]_vars

-----------------------------------------------------------------------------
(* a_iterate run step by step, with its call stack and the shared list *)

Top == stack[Len(stack)]

\* the loop of a_check has run to its end: scan.entL is what it returns
ScanDone == pc = "scan" /\ scan.i = Len(Top.astr)

Init ==
  /\ input \in Inputs
  /\ arg = input
  /\ alist = <<>>
  /\ stack = <<>>
  /\ scan = ScanInit
  /\ pc = "call"
  /\ ReportIdle

\* entry of a_iterate(arg, alist) and of the a_check(astr) it calls
Call ==
  /\ pc = "call"
  /\ stack' = Append(stack, [astr |-> arg, astr2 |-> <<>>, k |-> 0,
                             at |-> "check", alist0 |-> alist])
  /\ scan' = ScanInit
  /\ pc' = "scan"
  /\ UNCHANGED <<input, arg, alist>>
  /\ UNCHANGED report

\* one iteration of the loop of a_check
ScanChar ==
  /\ pc = "scan"
  /\ scan.i < Len(Top.astr)
  /\ scan' = ScanStep(Top.astr, scan)
  /\ pc' = IF scan'.err THEN "error" ELSE "scan"
  /\ UNCHANGED <<input, arg, alist, stack>>
  /\ UNCHANGED report

\* Single that appends the text of the span only when it is not empty
Single_SkipsEmpty ==
  /\ ScanDone
  /\ Len(scan.entL) = 1
  /\ alist' = IF strip_tags(scan.entL[1], <<>>) = << <<>> >>
              THEN alist ELSE strip_tags(scan.entL[1], alist)
  /\ arg' = strip_outer(scan.entL[1])
  /\ stack' = [stack EXCEPT ![Len(stack)].astr2 = scan.entL,
                            ![Len(stack)].at = "single"]
  /\ pc' = "call"
  /\ UNCHANGED <<input, scan>>
  /\ UNCHANGED report

\* Single that starts a fresh list instead of appending to the shared one
Single_FreshList ==
  /\ ScanDone
  /\ Len(scan.entL) = 1
  /\ alist' = strip_tags(scan.entL[1], <<>>)
  /\ arg' = strip_outer(scan.entL[1])
  /\ stack' = [stack EXCEPT ![Len(stack)].astr2 = scan.entL,
                            ![Len(stack)].at = "single"]
  /\ pc' = "call"
  /\ UNCHANGED <<input, scan>>
  /\ UNCHANGED report

\* a_check returned one span: append its text, recurse into its interior
Single ==
  /\ ScanDone
  /\ Len(scan.entL) = 1
  /\ alist' = strip_tags(scan.entL[1], alist)
  /\ arg' = strip_outer(scan.entL[1])
  /\ stack' = [stack EXCEPT ![Len(stack)].astr2 = scan.entL,
                            ![Len(stack)].at = "single"]
  /\ pc' = "call"
  /\ UNCHANGED <<input, scan>>
  /\ UNCHANGED report

\* Multi that records a string without any span as an entry of its own
Multi_KeepsPlain ==
  /\ ScanDone
  /\ Len(scan.entL) # 1
  /\ alist' = IF scan.entL = <<>> /\ Top.astr # <<>>
              THEN Append(alist, Top.astr) ELSE alist
  /\ stack' = [stack EXCEPT ![Len(stack)].astr2 = scan.entL,
                            ![Len(stack)].at = "loop"]
  /\ pc' = "loop"
  /\ UNCHANGED <<input, arg, scan>>
  /\ UNCHANGED report

\* a_check returned no span or several: enter the for loop
Multi ==
  /\ ScanDone
  /\ Len(scan.entL) # 1
  /\ stack' = [stack EXCEPT ![Len(stack)].astr2 = scan.entL,
                            ![Len(stack)].at = "loop"]
  /\ pc' = "loop"
  /\ UNCHANGED <<input, arg, alist, scan>>
  /\ UNCHANGED report

\* LoopNext visiting the spans from the right
LoopNext_FromRight ==
  /\ pc = "loop"
  /\ Top.k < Len(Top.astr2)
  /\ arg' = Top.astr2[Len(Top.astr2) - Top.k]
  /\ stack' = [stack EXCEPT ![Len(stack)].k = @ + 1]
  /\ pc' = "call"
  /\ UNCHANGED <<input, alist, scan>>
  /\ UNCHANGED report

\* next iteration of the for loop: recurse into the next span
LoopNext ==
  /\ pc = "loop"
  /\ Top.k < Len(Top.astr2)
  /\ arg' = Top.astr2[Top.k + 1]
  /\ stack' = [stack EXCEPT ![Len(stack)].k = @ + 1]
  /\ pc' = "call"
  /\ UNCHANGED <<input, alist, scan>>
  /\ UNCHANGED report

\* LoopEnd that may leave the loop after its first iteration
LoopEnd_Early ==
  /\ pc = "loop"
  /\ Top.k = Len(Top.astr2) \/ Top.k >= 1
  /\ pc' = "ret"
  /\ UNCHANGED <<input, arg, alist, stack, scan>>
  /\ UNCHANGED report

\* the for loop is exhausted
LoopEnd ==
  /\ pc = "loop"
  /\ Top.k = Len(Top.astr2)
  /\ pc' = "ret"
  /\ UNCHANGED <<input, arg, alist, stack, scan>>
  /\ UNCHANGED report

\* return alist: back in the caller, after its recursive call
Return ==
  /\ pc = "ret"
  /\ stack' = SubSeq(stack, 1, Len(stack) - 1)
  /\ pc' = IF Len(stack) = 1 THEN "done"
           ELSE IF stack[Len(stack) - 1].at = "single" THEN "ret" ELSE "loop"
  /\ UNCHANGED <<input, arg, alist, scan>>
  /\ UNCHANGED report

Next == Call \/ ScanChar \/ Single \/ Multi \/ LoopNext \/ LoopEnd \/ Return

Spec == Init /\ [][Next]_vars

\* the same run, started also on arbitrary arrangements of marker characters
InitMarkup ==
  /\ input \in Inputs \cup MarkupInputs
  /\ arg = input
  /\ alist = <<>>
  /\ stack = <<>>
  /\ scan = ScanInit
  /\ pc = "call"
  /\ ReportIdle

SpecMarkup == InitMarkup /\ [][Next]_vars

-----------------------------------------------------------------------------
(* Tag structure of a string, read off the marker positions *)

IsBgnAt(s, p) == MatchAt(s, BgnTag, p)

IsEndAt(s, p) == MatchAt(s, EndTag, p)

\* position p lies inside an occurrence of "<>" or "</>"
InMarker(s, p) ==
  \E q \in 1..p : \/ IsBgnAt(s, q) /\ p < q + Len(BgnTag)
                  \/ IsEndAt(s, q) /\ p < q + Len(EndTag)

\* begin markers minus end markers among those starting at or before p
Depth(s, p) ==
  Cardinality({q \in 1..p : IsBgnAt(s, q)}) - Cardinality({q \in 1..p : IsEndAt(s, q)})

\* "<", ">" and "/" occur only inside markers
MarkersOnly(s) ==
  \A p \in 1..Len(s) : s[p] \in {"<", ">", "/"} => InMarker(s, p)

\* markers balanced under stack discipline
WellFormed(s) ==
  /\ MarkersOnly(s)
  /\ \A p \in 1..Len(s) : Depth(s, p) >= 0
  /\ Depth(s, Len(s)) = 0

\* the end marker that closes the begin marker at b
MatchEnd(s, b) ==
  CHOOSE e \in (b + 1)..Len(s) :
     /\ IsEndAt(s, e) /\ Depth(s, e) = Depth(s, b) - 1
     /\ \A f \in (b + 1)..(e - 1) : ~(IsEndAt(s, f) /\ Depth(s, f) = Depth(s, b) - 1)

\* the tag that begins at b, from its begin marker through its end marker
TagSpan(s, b) == SubSeq(s, b, MatchEnd(s, b) + Len(EndTag) - 1)

Positions(s) == [p \in 1..Len(s) |-> p]

\* s without the characters of its markers
DeTag(s) ==
  LET keep == SelectSeq(Positions(s), LAMBDA p : ~InMarker(s, p))
  IN [k \in 1..Len(keep) |-> s[keep[k]]]

\* positions of the begin markers, left to right
BgnPos(s) == SelectSeq(Positions(s), LAMBDA p : IsBgnAt(s, p))

\* positions of the begin markers that open a top-level tag
TopPos(s) == SelectSeq(Positions(s), LAMBDA p : IsBgnAt(s, p) /\ Depth(s, p) = 1)

\* the texts of all tags in the order of their begin markers
PreOrder(s) == [k \in 1..Len(BgnPos(s)) |-> DeTag(TagSpan(s, BgnPos(s)[k]))]

\* the top-level tags, left to right
TopSpans(s) == [k \in 1..Len(TopPos(s)) |-> TagSpan(s, TopPos(s)[k])]

-----------------------------------------------------------------------------
(* Properties *)

\* C1: for a well-formed input the list returned by a_iterate(input, [])
\* holds the tags' texts in depth-first pre-order, which is the order of
\* the begin markers: the k-th entry is the text of the tag opened by the
\* k-th begin marker, so a tag precedes the tags nested in it, and a tag
\* with all its descendants precedes every sibling that starts further right.
C1_PreOrder ==
  (pc = "done" /\ WellFormed(input)) => alist = PreOrder(input)

\* a tag with a nested tag and a later sibling, all texts different
C1_Witness ==
  /\ pc = "done" /\ WellFormed(input)
  /\ \E b1, b2, b3 \in 1..Len(input) :
        /\ IsBgnAt(input, b1) /\ IsBgnAt(input, b2) /\ IsBgnAt(input, b3)
        /\ b1 < b2 /\ b2 < MatchEnd(input, b1) /\ MatchEnd(input, b1) < b3
        /\ Depth(input, b3) = Depth(input, b1)
  /\ \A j, k \in 1..Len(alist) : j # k => alist[j] # alist[k]

C3_OnePerTag ==
  (pc = "done" /\ WellFormed(input)) => Len(alist) = Len(BgnPos(input))

\* a result that holds the same text twice
C3_Witness ==
  /\ pc = "done" /\ WellFormed(input)
  /\ \E j, k \in 1..Len(alist) : j < k /\ alist[j] = alist[k] /\ alist[j] # <<>>

\* the string is one tag that wraps everything else
SingleWrap(s) ==
  /\ WellFormed(s) /\ IsBgnAt(s, 1)
  /\ MatchEnd(s, 1) + Len(EndTag) - 1 = Len(s)

\* C4 as stated: whenever the result is not empty, its first element is
\* the whole input with every marker removed.
C4_FirstIsWholeInput ==
  (pc = "done" /\ alist # <<>>) => alist[1] = DeTag(input)

\* C4 amended: for a well-formed input that is one tag wrapping everything
\* else, the result is not empty and its first element is the whole input
\* with every marker removed.
C4_FirstIsWholeWrapped ==
  (pc = "done" /\ SingleWrap(input)) => (alist # <<>> /\ alist[1] = DeTag(input))

\* a wrapping tag with tags nested in it
C4_Witness ==
  /\ pc = "done" /\ SingleWrap(input)
  /\ Len(alist) >= 3 /\ alist[1] # <<>> /\ alist[1] # alist[2]

\* C5: a_iterate completes on every input string, also on unbalanced ones
\* and on strings that end in "<": no run ends in an error.
C5_NeverRaises == pc # "error"

\* C6: for an input W <> T with W and T well-formed, a_iterate completes
\* and returns what it returns for W alone: nothing for the unclosed begin
\* tag or what follows it, and every span of W.
C6_UnclosedTail ==
  pc \in {"done", "error"} =>
    \A k \in 0..(Len(input) - Len(BgnTag)) :
       LET W == SubSeq(input, 1, k)
           T == SubSeq(input, k + Len(BgnTag) + 1, Len(input))
       IN (WellFormed(W) /\ IsBgnAt(input, k + 1) /\ WellFormed(T)) =>
             /\ pc = "done"
             /\ a_iterate(W, <<>>) = [err |-> FALSE, alist |-> alist]

\* W holds spans, and T holds a balanced tag after the unclosed begin tag
C6_Witness ==
  /\ pc = "done" /\ alist # <<>>
  /\ \E k \in 1..(Len(input) - Len(BgnTag)) :
       LET W == SubSeq(input, 1, k)
           T == SubSeq(input, k + Len(BgnTag) + 1, Len(input))
       IN /\ WellFormed(W) /\ IsBgnAt(input, k + 1) /\ WellFormed(T)
          /\ BgnPos(W) # <<>> /\ BgnPos(T) # <<>>

\* C7: on a well-formed string a_check returns exactly the top-level tags,
\* each from its begin marker through its end marker, left to right and
\* without overlap; a string that is one tag wrapping everything else
\* gives one span, the whole string.
C7_TopLevelSpans ==
  (ScanDone /\ WellFormed(Top.astr)) =>
     /\ scan.entL = TopSpans(Top.astr)
     /\ \A j \in 1..(Len(scan.entL) - 1) :
           TopPos(Top.astr)[j] + Len(scan.entL[j]) <= TopPos(Top.astr)[j + 1]
     /\ SingleWrap(Top.astr) => scan.entL = <<Top.astr>>

\* several top-level spans, one with a nested tag, and text between them
C7_Witness ==
  /\ ScanDone /\ WellFormed(Top.astr)
  /\ Len(scan.entL) >= 2
  /\ \E j \in 1..Len(scan.entL) : Len(BgnPos(scan.entL[j])) >= 2
  /\ Len(scan.entL[1]) + Len(scan.entL[2]) < Len(Top.astr)

\* begin-tag and end-tag occurrences of a string, as a_check counts them
BgnOcc(e) == {p \in 1..Len(e) : e[p] = "<" /\ ~(p < Len(e) /\ e[p + 1] = "/")}

EndOcc(e) == {p \in 1..Len(e) : e[p] = "<" /\ p < Len(e) /\ e[p + 1] = "/"}

Balanced(e) == Cardinality(BgnOcc(e)) = Cardinality(EndOcc(e))

\* every end marker closes an open begin marker; begin markers may stay open
NoStrayEnd(s) == MarkersOnly(s) /\ \A p \in 1..Len(s) : Depth(s, p) >= 0

\* C8 as stated: for every string, balanced or not, each element returned
\* by a_check has as many begin-tag as end-tag occurrences.
C8_AlwaysBalanced ==
  ScanDone => \A j \in 1..Len(scan.entL) : Balanced(scan.entL[j])

\* C8 amended: for every string in which "<", ">" and "/" occur only inside
\* markers and every end marker closes an open begin marker (begin markers
\* may stay unclosed), each element returned by a_check has as many
\* begin-tag as end-tag occurrences.
C8_BalancedWithoutStrayEnd ==
  (ScanDone /\ NoStrayEnd(Top.astr)) =>
     \A j \in 1..Len(scan.entL) : Balanced(scan.entL[j])

\* an unbalanced string without stray end marker that yields a nested span
C8_Witness ==
  /\ ScanDone /\ NoStrayEnd(Top.astr) /\ ~WellFormed(Top.astr)
  /\ \E j \in 1..Len(scan.entL) : Cardinality(BgnOcc(scan.entL[j])) >= 2

RECURSIVE EachAlone(_, _)
\* a_iterate(p, []) of the spans from the k-th on, concatenated
EachAlone(spans, k) ==
  IF k > Len(spans) THEN <<>>
  ELSE a_iterate(spans[k], <<>>).alist \o EachAlone(spans, k + 1)

\* C9: for a well-formed input with the top-level tags p1..pk, the result
\* is a_iterate(p1, []) .. a_iterate(pk, []) concatenated in order; text
\* outside every tag adds nothing.
C9_ConcatOfSpans ==
  (pc = "done" /\ WellFormed(input)) => alist = EachAlone(TopSpans(input), 1)

\* two top-level tags with plain text between them
C9_Witness ==
  /\ pc = "done" /\ WellFormed(input)
  /\ Len(TopPos(input)) >= 2 /\ Len(alist) >= 2
  /\ \E p \in 1..Len(input) :
        /\ ~InMarker(input, p) /\ Depth(input, p) = 0
        /\ TopPos(input)[1] < p /\ p < TopPos(input)[2]

\* C10: an invocation whose a_check yields no span returns the list as it
\* was passed in; started with the empty list on a string without any tag
\* (no "<", which is all a_check looks for), a_iterate completes and
\* returns the empty list.
C10_NoSpanNoAppend ==
  /\ (pc = "ret" /\ Top.astr2 = <<>>) => alist = Top.alist0
  /\ (pc \in {"done", "error"} /\ \A p \in 1..Len(input) : input[p] # "<") =>
        (pc = "done" /\ alist = <<>>)

\* an invocation on plain text that was passed a list with entries
C10_Witness ==
  /\ pc = "ret" /\ Top.astr2 = <<>>
  /\ Top.astr # <<>> /\ Top.alist0 # <<>>

\* no character of a marker
Plain(s) == \A p \in 1..Len(s) : s[p] \notin {"<", ">", "/"}

\* the text between the first begin marker and the last end marker
Interior(s) == SubSeq(s, Len(BgnTag) + 1, Len(s) - Len(EndTag))

\* one tag around plain text
IsLeaf(s) ==
  /\ Len(s) >= Len(BgnTag) + Len(EndTag)
  /\ IsBgnAt(s, 1) /\ IsEndAt(s, Len(s) - Len(EndTag) + 1)
  /\ Plain(Interior(s))

\* C11: for plain text T, empty or not, a_iterate("<>" + T + "</>", [])
\* completes and returns the one-element list [T]; "<></>" gives [""].
C11_LeafGivesText ==
  (pc \in {"done", "error"} /\ IsLeaf(input)) =>
     (pc = "done" /\ alist = <<Interior(input)>>)

\* the empty span
C11_Witness ==
  pc = "done" /\ IsLeaf(input) /\ Interior(input) = <<>> /\ Len(alist) = 1

\* one tag wrapping k >= 2 leaf tags and plain text, nothing else
IsWrapOfLeaves(s) ==
  /\ SingleWrap(s)
  /\ Len(BgnPos(s)) >= 3
  /\ \A j \in 2..Len(BgnPos(s)) : Depth(s, BgnPos(s)[j]) = 2

\* C12: for one tag wrapping k >= 2 sibling leaf tags with the texts
\* s1..sk, the result has k+1 entries: the wrapper's content without any
\* marker, then s1, .., sk from left to right.
C12_WrapOfLeaves ==
  (pc = "done" /\ IsWrapOfLeaves(input)) =>
     /\ Len(alist) = Len(BgnPos(input))
     /\ alist[1] = DeTag(input)
     /\ \A j \in 2..Len(BgnPos(input)) :
           alist[j] = Interior(TagSpan(input, BgnPos(input)[j]))

\* three leaves with different texts and text between them
C12_Witness ==
  /\ pc = "done" /\ IsWrapOfLeaves(input)
  /\ Len(alist) = 4
  /\ \A j, k \in 1..4 : j # k => alist[j] # alist[k]

NoMarker(e) == \A p \in 1..Len(e) : ~IsBgnAt(e, p) /\ ~IsEndAt(e, p)

\* C14 as stated: for every input string no entry of the list holds an
\* occurrence of "<>" or "</>".
C14_NoMarkerLeft == \A j \in 1..Len(alist) : NoMarker(alist[j])

\* C14 amended: for every input in which "<", ">" and "/" occur only inside
\* markers, balanced or not, no entry of the list holds an occurrence of
\* "<>" or "</>".
C14_NoMarkerLeftOfMarkers ==
  MarkersOnly(input) => \A j \in 1..Len(alist) : NoMarker(alist[j])

\* an unbalanced input of whole markers with nested tags and text
C14_Witness ==
  /\ pc = "done" /\ MarkersOnly(input) /\ ~WellFormed(input)
  /\ Len(alist) >= 2 /\ alist[1] # <<>>

RECURSIVE parse(_), parse_each(_, _)
\* the parser without shared list: every call returns a fresh sequence,
\* built from the entry of its span and the sequences of its recursive
\* calls in call order; .err tells that the scan raised
parse(s) ==
  LET r == a_check(s) IN
  IF r.err THEN [err |-> TRUE, seq |-> <<>>]
  ELSE IF Len(r.entL) = 1
       THEN LET sub == parse(strip_outer(r.entL[1]))
            IN [err |-> sub.err, seq |-> strip_tags(r.entL[1], <<>>) \o sub.seq]
       ELSE parse_each(r.entL, 1)

parse_each(spans, k) ==
  IF k > Len(spans) THEN [err |-> FALSE, seq |-> <<>>]
  ELSE LET hd == parse(spans[k])
       IN IF hd.err THEN hd
          ELSE LET tl == parse_each(spans, k + 1)
               IN [err |-> tl.err, seq |-> hd.seq \o tl.seq]

\* C16: the parser that returns and concatenates fresh sequences yields,
\* for every input, the list that a_iterate builds in its shared list from
\* the empty list; it raises exactly when a_iterate does.
C16_PureVersionAgrees ==
  /\ pc = "done" => parse(input) = [err |-> FALSE, seq |-> alist]
  /\ pc = "error" => parse(input).err

\* a run through both branches: siblings, one of them with a nested tag
C16_Witness ==
  /\ pc = "done" /\ WellFormed(input)
  /\ Len(TopPos(input)) >= 2 /\ Len(alist) > Len(TopPos(input))

\* C19: a_iterate terminates: every recursive call, into the interior of a
\* single span or into one of several sibling spans, is made on a string
\* strictly shorter than the string of the calling invocation, so the
\* strings of the nested invocations decrease strictly; an invocation
\* whose string yields no span makes no call; and the two loops stay
\* within the string scanned and the spans found.
C19_CallsShrink ==
  /\ \A j \in 2..Len(stack) : Len(stack[j].astr) < Len(stack[j - 1].astr)
  /\ (pc = "call" /\ stack # <<>>) =>
        (Len(arg) < Len(Top.astr) /\ Top.astr2 # <<>>)
  /\ pc \in {"scan", "loop", "ret"} =>
        /\ stack # <<>>
        /\ Top.k <= Len(Top.astr2)
        /\ pc = "scan" => scan.i <= Len(Top.astr)

\* a call from the loop of an invocation that was itself called for the
\* interior of a single span
C19_Witness ==
  /\ pc = "call" /\ Len(stack) >= 2
  /\ stack[1].at = "single" /\ stack[2].at = "loop"
  /\ Top.k = Len(Top.astr2) /\ Top.k >= 2

\* positions of plain text outside every tag
OutsideText(s) == {p \in 1..Len(s) : ~InMarker(s, p) /\ Depth(s, p) = 0}

\* C20 as stated: whenever a_check yields exactly one span for the string
\* passed to a_iterate, the span is the whole string.
C20_SingleSpanIsWhole ==
  (ScanDone /\ Len(scan.entL) = 1) => scan.entL[1] = Top.astr

\* C20 amended: whenever a_check yields exactly one span for a well-formed
\* string passed to a_iterate, the span is the string's only top-level
\* tag; it is the whole string exactly when the string has no text before
\* or after that tag.
C20_SingleSpanIsOnlyTag ==
  (ScanDone /\ Len(scan.entL) = 1 /\ WellFormed(Top.astr)) =>
     /\ Len(TopPos(Top.astr)) = 1
     /\ scan.entL[1] = TagSpan(Top.astr, TopPos(Top.astr)[1])
     /\ scan.entL[1] = Top.astr <=> OutsideText(Top.astr) = {}

\* the interior of a tag, scanned in a recursive call: a nested tag
\* followed by text
C20_Witness ==
  /\ ScanDone /\ Len(scan.entL) = 1 /\ WellFormed(Top.astr)
  /\ Len(stack) >= 2
  /\ OutsideText(Top.astr) # {} /\ scan.entL[1] # Top.astr

\* the data rows of the report: the lines after the header
DataRows == Tail(oup)

Elems(lst) == {lst[k] : k \in 1..Len(lst)}

\* C17: the finished report has exactly one data row per distinct text of
\* the two result lists: no text is in two rows and no text of either list
\* is missing, also when a list holds a text several times.
C17_OneRowPerText ==
  cell = "closed" =>
     /\ \A j, k \in 1..Len(DataRows) : j # k => DataRows[j][1] # DataRows[k][1]
     /\ {DataRows[k][1] : k \in 1..Len(DataRows)} = Elems(sgl_lst) \cup Elems(shs_lst)

\* both lists repeat a text, and they share one
C17_Witness ==
  /\ cell = "closed"
  /\ Len(sgl_lst) > Cardinality(Elems(sgl_lst))
  /\ Len(shs_lst) > Cardinality(Elems(shs_lst))
  /\ Elems(sgl_lst) \cap Elems(shs_lst) # {}
  /\ Elems(sgl_lst) # Elems(shs_lst)

\* C18: in every data row the first flag is 1 exactly when the text is in
\* the first source's list, the second flag is 1 exactly when it is in the
\* second source's list; flags are 0 or 1 and never both 0.
C18_FlagsTellMembership ==
  cell # "parse" =>
    \A k \in 2..Len(oup) :
       /\ oup[k][2] \in {"0", "1"} /\ oup[k][3] \in {"0", "1"}
       /\ oup[k][2] = "1" <=> oup[k][1] \in Elems(sgl_lst)
       /\ oup[k][3] = "1" <=> oup[k][1] \in Elems(shs_lst)
       /\ ~(oup[k][2] = "0" /\ oup[k][3] = "0")

\* a finished report with a row of each kind: 1 1, 1 0 and 0 1
C18_Witness ==
  /\ cell = "closed"
  /\ \E a, b, c \in 2..Len(oup) :
        /\ oup[a][2] = "1" /\ oup[a][3] = "1"
        /\ oup[b][2] = "1" /\ oup[b][3] = "0"
        /\ oup[c][2] = "0" /\ oup[c][3] = "1"

\* the begin marker of the top-level tag that is open after the first i
\* characters: the first begin marker since the last top-level end marker
OpenTop(s, i) ==
  CHOOSE p \in 1..i :
     /\ IsBgnAt(s, p) /\ Depth(s, p) = 1
     /\ \A q \in (p + 1)..i : ~(IsBgnAt(s, q) /\ Depth(s, q) = 1)

\* top-level end markers among the first i characters
TopEnds(s, i) == {q \in 1..i : IsEndAt(s, q) /\ Depth(s, q) = 0}

\* the counters of a_check after the first scan.i characters of astr
CountersFit(astr) ==
  /\ scan.iEnd = 0
  /\ Len(scan.entL) = Cardinality(TopEnds(astr, scan.i))
  /\ \/ /\ scan.cBgn = 0 /\ scan.cEnd = 0 /\ scan.iBgn = 0
        /\ Depth(astr, scan.i) = 0
     \/ /\ 0 <= scan.cEnd /\ scan.cEnd < scan.cBgn
        /\ scan.cBgn - scan.cEnd = Depth(astr, scan.i)
        /\ scan.iBgn = OpenTop(astr, scan.i) - 1

\* an iteration of the loop of a_check emits a span exactly at the end
\* marker that makes cEnd equal to cBgn, and then resets the counters
EmitsAtMatch(astr) ==
  LET emitted == Len(scan'.entL) = Len(scan.entL) + 1 IN
  /\ emitted <=> (IsEndAt(astr, scan.i + 1) /\ scan.cEnd + 1 = scan.cBgn)
  /\ ~emitted => scan'.entL = scan.entL
  /\ emitted => /\ SubSeq(scan'.entL, 1, Len(scan.entL)) = scan.entL
                /\ scan'.cBgn = 0 /\ scan'.cEnd = 0
                /\ scan'.iBgn = 0 /\ scan'.iEnd = 0

\* C21: during a_check on a well-formed string, after every processed
\* character either cBgn = cEnd = 0 and iBgn = 0 (outside any span), or
\* 0 <= cEnd < cBgn and iBgn is the index of the first begin tag seen since
\* the last reset; a span is emitted exactly at the end tag that makes cEnd
\* equal to cBgn, and the emission resets cBgn, cEnd, iBgn and iEnd to 0.
C21_CounterInvariant ==
  /\ []((pc = "scan" /\ WellFormed(Top.astr)) => CountersFit(Top.astr))
  /\ [][(pc = "scan" /\ scan'.i = scan.i + 1 /\ WellFormed(Top.astr))
          => EmitsAtMatch(Top.astr)]_vars

\* inside the second top-level span of the string, two tags open and one
\* of them closed again
C21_Witness ==
  /\ pc = "scan" /\ WellFormed(Top.astr)
  /\ scan.entL # <<>> /\ scan.iBgn > 0
  /\ scan.cBgn >= 2 /\ scan.cEnd = 1

IsPrefix(a, b) == Len(a) <= Len(b) /\ SubSeq(b, 1, Len(a)) = a

\* C22: the accumulator is append-only: every step leaves its content as a
\* prefix of the new content, so the content at any step is a prefix of
\* the final one; every invocation, entered with the list L, returns L
\* followed by what a_iterate gives for its string from the empty list,
\* and so does a_iterate(input, L) for any initial list L; a second call
\* on the list of a finished call leaves the entries of both calls in it.
C22_AppendOnly ==
  /\ [][IsPrefix(alist, alist')]_vars
  /\ [](pc = "ret" =>
          a_iterate(Top.astr, <<>>) =
             [err |-> FALSE, alist |-> SubSeq(alist, Len(Top.alist0) + 1, Len(alist))]
          /\ IsPrefix(Top.alist0, alist))
  /\ [](pc = "done" =>
          /\ \A L \in ResultLists :
                a_iterate(input, L) = [err |-> FALSE, alist |-> L \o alist]
          /\ \A s \in {Tested1, Tested2} :
                a_iterate(s, alist).alist = alist \o a_iterate(s, <<>>).alist)

\* a nested invocation that was entered with entries in the list and
\* returns with more
C22_Witness ==
  /\ pc = "ret" /\ Len(stack) >= 2
  /\ Top.alist0 # <<>> /\ Len(alist) >= Len(Top.alist0) + 2

RECURSIVE Uniform(_), UniformEach(_, _)
\* the uniform recursion: for each top-level tag p of s from left to
\* right, the text of p, then the same for the interior of p
Uniform(s) == UniformEach(TopSpans(s), 1)

UniformEach(spans, k) ==
  IF k > Len(spans) THEN <<>>
  ELSE <<DeTag(spans[k])>> \o Uniform(Interior(spans[k])) \o UniformEach(spans, k + 1)

\* C23: on a well-formed input the two branches of a_iterate agree: the
\* result is that of the uniform recursion which, for each top-level span
\* p from left to right, appends p without markers and then processes the
\* interior of p, whether the string has one top-level span or several;
\* an invocation that takes the multi-span branch has appended nothing
\* when it starts to recurse.
C23_UniformRecursion ==
  /\ (pc = "done" /\ WellFormed(input)) => alist = Uniform(input)
  /\ (pc = "ret" /\ WellFormed(Top.astr)) =>
        alist = Top.alist0 \o Uniform(Top.astr)
  /\ (pc = "loop" /\ Top.k = 0) => alist = Top.alist0

\* several top-level spans, one of them with a single tag inside
C23_Witness ==
  /\ pc = "done" /\ WellFormed(input)
  /\ Len(TopPos(input)) >= 2
  /\ \E j \in 1..Len(TopPos(input)) :
        Len(TopPos(Interior(TopSpans(input)[j]))) = 1
  /\ Len(alist) >= 3

\* C24: for every span p that a_check returns on a well-formed string,
\* strip_outer(p) is p without its leading begin marker and without its
\* trailing end marker, every nested marker left in place, also when the
\* interior is empty or itself starts or ends with a nested tag; this is
\* the string the single-span branch recurses into.
C24_StripsOneLayer ==
  /\ (ScanDone /\ WellFormed(Top.astr)) =>
        \A j \in 1..Len(scan.entL) :
           /\ strip_outer(scan.entL[j]) = Interior(scan.entL[j])
           /\ Len(BgnPos(strip_outer(scan.entL[j]))) = Len(BgnPos(scan.entL[j])) - 1
  /\ (pc = "call" /\ stack # <<>> /\ Top.at = "single" /\ WellFormed(Top.astr)) =>
        arg = Interior(Top.astr2[1])

\* a span with empty interior next to a span whose interior starts and
\* ends with a nested tag
C24_Witness ==
  /\ ScanDone /\ WellFormed(Top.astr)
  /\ \E j \in 1..Len(scan.entL) : strip_outer(scan.entL[j]) = <<>>
  /\ \E j \in 1..Len(scan.entL) :
        LET q == strip_outer(scan.entL[j])
        IN IsBgnAt(q, 1) /\ IsEndAt(q, Len(q) - Len(EndTag) + 1)

-----------------------------------------------------------------------------
(* The second version of the parser: markers "<ent>" and "</ent>" *)

BgnEnt == <<"<", "e", "n", "t", ">">>

EndEnt == <<"<", "/", "e", "n", "t", ">">>

\* ent_ScanStep with the end offset of the first version, len("</>")
ent_ScanStep_Offset3(astr, st) ==
  LET i == st.i IN
  IF astr[i + 1] = "<"
  THEN IF i + 1 >= Len(astr)
       THEN [st EXCEPT !.err = TRUE]
       ELSE IF astr[i + 2] = "/"
            THEN IF st.cEnd + 1 = st.cBgn
                 THEN [i |-> i + 1, cBgn |-> 0, iBgn |-> 0, cEnd |-> 0, iEnd |-> 0,
                       entL |-> Append(st.entL,
                                       PySlice(astr, st.iBgn, i + Len(EndTag))),
                       err |-> FALSE]
                 ELSE [st EXCEPT !.cEnd = @ + 1, !.i = i + 1]
            ELSE [st EXCEPT !.iBgn = IF st.cBgn = 0 THEN i ELSE @,
                            !.cBgn = @ + 1,
                            !.i = i + 1]
  ELSE [st EXCEPT !.i = i + 1]

\* one iteration of the for loop of the second a_check: iEnd = i + len("</ent>")
ent_ScanStep(astr, st) ==
  LET i == st.i IN
  IF astr[i + 1] = "<"
  THEN IF i + 1 >= Len(astr)
       THEN [st EXCEPT !.err = TRUE]
       ELSE IF astr[i + 2] = "/"
            THEN IF st.cEnd + 1 = st.cBgn
                 THEN [i |-> i + 1, cBgn |-> 0, iBgn |-> 0, cEnd |-> 0, iEnd |-> 0,
                       entL |-> Append(st.entL,
                                       PySlice(astr, st.iBgn, i + Len(EndEnt))),
                       err |-> FALSE]
                 ELSE [st EXCEPT !.cEnd = @ + 1, !.i = i + 1]
            ELSE [st EXCEPT !.iBgn = IF st.cBgn = 0 THEN i ELSE @,
                            !.cBgn = @ + 1,
                            !.i = i + 1]
  ELSE [st EXCEPT !.i = i + 1]

RECURSIVE ent_ScanFrom(_, _)
ent_ScanFrom(astr, st) ==
  IF st.err \/ st.i >= Len(astr) THEN st
  ELSE ent_ScanFrom(astr, ent_ScanStep(astr, st))

\* the second a_check(astr)
ent_a_check(astr) == ent_ScanFrom(astr, ScanInit)

\* the second strip_tags(astr2, alist)
ent_strip_tags(astr2, lst) ==
  Append(lst, Join(SplitEach(Split(astr2, BgnEnt), EndEnt)))

\* the second strip_outer(astr2)
ent_strip_outer(astr2) ==
  PySlice(astr2, Find(astr2, ">") + 1, RFind(astr2, "<"))

RECURSIVE ent_a_iterate(_, _), ent_a_iterate_each(_, _, _)
\* the second a_iterate(astr, alist)
ent_a_iterate(astr, lst) ==
  LET r == ent_a_check(astr) IN
  IF r.err THEN [err |-> TRUE, alist |-> lst]
  ELSE IF Len(r.entL) = 1
       THEN ent_a_iterate(ent_strip_outer(r.entL[1]), ent_strip_tags(r.entL[1], lst))
       ELSE ent_a_iterate_each(r.entL, 1, lst)

ent_a_iterate_each(astr2, k, lst) ==
  IF k > Len(astr2) THEN [err |-> FALSE, alist |-> lst]
  ELSE LET r == ent_a_iterate(astr2[k], lst)
       IN IF r.err THEN r ELSE ent_a_iterate_each(astr2, k + 1, r.alist)

RECURSIVE Rename(_)
\* s with each "<>" replaced by "<ent>" and each "</>" by "</ent>"
Rename(s) ==
  IF s = <<>> THEN <<>>
  ELSE IF IsEndAt(s, 1) THEN EndEnt \o Rename(SubSeq(s, Len(EndTag) + 1, Len(s)))
  ELSE IF IsBgnAt(s, 1) THEN BgnEnt \o Rename(SubSeq(s, Len(BgnTag) + 1, Len(s)))
  ELSE <<Head(s)>> \o Rename(Tail(s))

\* C25: for every well-formed input s over "<>" and "</>", the second
\* version of the parser (markers "<ent>" and "</ent>", end offset 6),
\* applied to s with the markers renamed, completes and returns the same
\* entries in the same order as the first version applied to s.
C25_VersionsAgree ==
  (pc = "done" /\ WellFormed(input)) =>
     ent_a_iterate(Rename(input), <<>>) = [err |-> FALSE, alist |-> alist]

\* a tag with text nested in a tag with more text, renamed
C25_Witness ==
  /\ pc = "done" /\ WellFormed(input)
  /\ Len(TopPos(input)) = 1 /\ Len(alist) >= 2
  /\ alist[2] # <<>> /\ alist[1] # alist[2]
  /\ Len(Rename(input)) = Len(input) + 3 * (Len(BgnPos(input)) + Len(BgnPos(input)))
  /\ ent_a_iterate(Rename(input), <<>>).alist = alist

\* the invocation that called the current one
Caller == stack[Len(stack) - 1]

\* C26: on a well-formed string a_check is idempotent on its own output:
\* for every span p it returns, a_check(p) returns the one-element list
\* [p]; so the scan of each sibling span handed to a recursive call from
\* the for loop yields that span alone, and the call takes the single-span
\* branch.
C26_SpanScansToItself ==
  /\ (ScanDone /\ WellFormed(Top.astr)) =>
        \A j \in 1..Len(scan.entL) :
           LET r == a_check(scan.entL[j])
           IN ~r.err /\ r.entL = <<scan.entL[j]>>
  /\ (ScanDone /\ Len(stack) >= 2 /\ Caller.at = "loop" /\ WellFormed(Caller.astr)) =>
        scan.entL = <<Top.astr>>

\* the scan of a sibling span with a nested tag, called from the for loop
C26_Witness ==
  /\ ScanDone /\ Len(stack) >= 2
  /\ Caller.at = "loop" /\ WellFormed(Caller.astr) /\ Len(Caller.astr2) >= 2
  /\ scan.entL = <<Top.astr>> /\ Len(BgnPos(Top.astr)) >= 2

\* a occurs in b as a contiguous run of characters
IsSubstr(a, b) ==
  \E p \in 0..(Len(b) - Len(a)) : SubSeq(b, p + 1, p + Len(a)) = a

\* the tag opened at b encloses the tag opened at c
Encloses(s, b, c) == b < c /\ c < MatchEnd(s, b)

\* C27: for a well-formed input every entry of the result is a contiguous
\* substring of the input with all markers removed, and the entry of a
\* nested tag is a contiguous substring of the entry of each tag that
\* encloses it (the k-th entry being that of the k-th begin marker).
C27_EntriesAreSubstrings ==
  (pc = "done" /\ WellFormed(input)) =>
     /\ Len(alist) = Len(BgnPos(input))
     /\ \A k \in 1..Len(alist) : IsSubstr(alist[k], DeTag(input))
     /\ \A j, k \in 1..Len(alist) :
           Encloses(input, BgnPos(input)[j], BgnPos(input)[k]) =>
              IsSubstr(alist[k], alist[j])

\* a tag with text inside a tag with more text
C27_Witness ==
  /\ pc = "done" /\ WellFormed(input)
  /\ \E j, k \in 1..Len(alist) :
        /\ Encloses(input, BgnPos(input)[j], BgnPos(input)[k])
        /\ alist[k] # <<>> /\ Len(alist[k]) < Len(alist[j])

\* the distinct texts of a list in the order of their first occurrence
FirstOcc(lst) ==
  LET first == SelectSeq(Positions(lst),
                         LAMBDA k : \A j \in 1..(k - 1) : lst[j] # lst[k])
  IN [k \in 1..Len(first) |-> lst[first[k]]]

Keys(adict) == [k \in 1..Len(adict) |-> adict[k].key]

\* what a step of the report cell may change in the two dictionaries
OnlySharedFlags ==
  /\ sgl_dct' = sgl_dct
  /\ Keys(shs_dct') = Keys(shs_dct)
  /\ \A k \in 1..Len(shs_dct) :
        shs_dct'[k].val # shs_dct[k].val =>
           (shs_dct'[k].val = 1 /\ shs_dct[k].key \in Elems(sgl_lst))

\* C28: the data rows of the finished report are, in this order, one row
\* for each distinct text of the first source in the order of its first
\* occurrence in that source's list, then one row for each text found only
\* in the second source in the order of its first occurrence there;
\* writing the report changes only flags of the second source's
\* dictionary, which end as 1 exactly for the texts shared with the first
\* source, and never changes the first source's dictionary.
C28_RowOrder ==
  /\ [](cell = "closed" =>
          /\ [k \in 1..Len(DataRows) |-> DataRows[k][1]] =
                FirstOcc(sgl_lst)
                  \o SelectSeq(FirstOcc(shs_lst), LAMBDA x : x \notin Elems(sgl_lst))
          /\ \A k \in 1..Len(sgl_dct) : sgl_dct[k].val = 0
          /\ \A k \in 1..Len(shs_dct) :
                shs_dct[k].val = 1 <=> shs_dct[k].key \in Elems(sgl_lst))
  /\ [][(cell \in {"open", "for_sgl", "for_shs"}) => OnlySharedFlags]_vars

\* the first list repeats a text after another one, the second list has a
\* shared text and a text of its own
C28_Witness ==
  /\ cell = "closed"
  /\ Len(sgl_lst) = 3 /\ sgl_lst[1] = sgl_lst[3] /\ sgl_lst[1] # sgl_lst[2]
  /\ \E k \in 1..Len(shs_dct) : shs_dct[k].val = 1
  /\ Len(DataRows) = 3

====
